---------------------------- MODULE Spec2Model ----------------------------
(***************************************************************************)
(* A model of package csmap (src/csmap.go): a hashmap partitioned into     *)
(* shards, each shard a Go map guarded by its own sync.RWMutex.            *)
(*                                                                         *)
(* Goroutines call Set, Get and Delete concurrently.  Every step of a call *)
(* that other goroutines can observe is one action: the call with its      *)
(* shard selection (getShard/hash), the lock acquisition, the access to    *)
(* the shard's map, and the deferred unlock with the return.               *)
(*                                                                         *)
(* hash reads the first machine word of the key's in-memory                *)
(* representation.  For an int key that word is the value (two's           *)
(* complement); for a string key it is the data pointer of the string      *)
(* header, that is, the address of the backing bytes.  A key is therefore  *)
(* modelled as a value k together with the address a of its backing bytes. *)
(***************************************************************************)
EXTENDS Integers, FiniteSets, Sequences, TLC

----------------------------------------------------------------------------
(* Bounds of the model *)

(* NewCSMap is called with a length in -1..MaxShards. *)
MaxShards == 2

(* The total number of Set/Get/Delete calls of a run. *)
MaxOps == 3

(* Width of uintptr (and of int) on the 64-bit platforms the package's     *)
(* benchmarks were run on.                                                  *)
WordBits == 64

(* The zero value of V, which a Go map lookup yields for a missing key.    *)
NoVal == 0

(* Two goroutines: every pair of Set, Get and Delete calls can overlap.    *)
Threads == {1, 2}

(* Key values.  As ints, -1 is the word 2^64 - 1 and 0 the word 0; as      *)
(* strings they stand for two different contents.                          *)
Keys == {-1, 0}

(* V is an opaque type parameter: two values tell an overwrite from a      *)
(* store that was lost.                                                     *)
Vals == {1, 2}

(* Addresses of the backing bytes of a string key.  hash uses an address    *)
(* only modulo the shard count.                                             *)
Addrs == {0, 1}

Lengths == -1..MaxShards
KeyTypes == {"int", "string"}

VARIABLES
    status,   \* "none" before NewCSMap, "active" with an instance, "panic" after a runtime panic
    ktype,    \* the type argument K of the instance: "int" or "string"
    length,   \* CSMap.length
    m,        \* m[i][k]: Shard.m of shards[i]; NoVal where k has no entry
    mu,       \* mu[i]: Shard.mu of shards[i]: [w: writer holds, r: number of readers]
    pc,       \* position of each goroutine in its current call
    op,       \* the call each goroutine is in: [kind, k, a, v]
    sh,       \* the index getShard computed for the call
    ret,      \* the result of Get, <<v, ok>>, set by the return statement
    held,     \* the shard locks each goroutine holds
    alone,    \* a Get that started with no other call in progress, none started since
    overlapped, \* some call started while another call was in progress
    last,     \* per key value, the latest committed Set/Delete: [w, v, s], and e: a Set has committed
    prev,     \* per key value, the write committed before it: [w, v]
    nops      \* number of calls started

vars == <<status, ktype, length, m, mu, pc, op, sh, ret, held, alone, overlapped, last, prev, nops>>

Shards == 0..(length - 1)

----------------------------------------------------------------------------
(* hash and getShard *)

RECURSIVE TwoPowMod(_, _)
(* 2^e mod n, by repeated doubling (the numbers stay below 2n). *)
TwoPowMod(e, n) == IF e = 0 THEN 1 % n ELSE (2 * TwoPowMod(e - 1, n)) % n

(* The first machine word of the key, reduced modulo n. *)
KeyWordMod(kt, k, a, n) ==
    IF kt = "int"
    THEN IF k >= 0 THEN k % n
         ELSE (TwoPowMod(WordBits, n) + (k % n)) % n
    ELSE a % n

hash(kt, k, a, n) == KeyWordMod(kt, k, a, n)

getShard(kt, k, a, n) == hash(kt, k, a, n)

----------------------------------------------------------------------------
(* The Go map of a shard *)

EmptyMap == [k \in Keys |-> NoVal]

(* A store that drops the other entries of the map. *)
MapAssignClobber(mp, k, v) == [x \in Keys |-> IF x = k THEN v ELSE NoVal]

MapAssign(mp, k, v) == [mp EXCEPT ![k] = v]

(* A delete that empties the map. *)
MapDeleteClear(mp, k) == [x \in Keys |-> NoVal]

MapDelete(mp, k) == [mp EXCEPT ![k] = NoVal]

(* A lookup that reports every key as found. *)
MapLookupAlwaysFound(mp, k) == <<mp[k], TRUE>>

MapLookup(mp, k) == <<mp[k], mp[k] # NoVal>>

----------------------------------------------------------------------------
(* sync.RWMutex *)

FreeLock == [w |-> FALSE, r |-> 0]

(* A writer that does not wait for the readers to leave. *)
CanLockIgnoringReaders(l) == ~l.w

CanLock(l) == ~l.w /\ l.r = 0

(* A reader that does not wait for the writer to leave. *)
CanRLockAlways(l) == TRUE

CanRLock(l) == ~l.w

Lock(l) == [l EXCEPT !.w = TRUE]

(* An unlock that is skipped: the lock stays held. *)
UnlockSkipped(l) == l

Unlock(l) == [l EXCEPT !.w = FALSE]

RLock(l) == [l EXCEPT !.r = l.r + 1]

(* A read unlock that is skipped: the reader stays counted. *)
RUnlockSkipped(l) == l

RUnlock(l) == [l EXCEPT !.r = l.r - 1]

(* One lock for all the shards. *)
ShardLockShared(i) == 0

(* The lock that guards shard i: its own (Shard.mu). *)
ShardLock(i) == i

----------------------------------------------------------------------------
NoOp == [kind |-> "none", k |-> 0, a |-> 0, v |-> NoVal]
NoRet == <<NoVal, FALSE>>
NeverWritten == [w |-> "never", v |-> NoVal, s |-> 0, e |-> FALSE]

Init ==
    /\ status = "none"
    /\ ktype = "int"
    /\ length = 0
    /\ m = <<>>
    /\ mu = <<>>
    /\ pc = [t \in Threads |-> "idle"]
    /\ op = [t \in Threads |-> NoOp]
    /\ sh = [t \in Threads |-> 0]
    /\ ret = [t \in Threads |-> NoRet]
    /\ held = [t \in Threads |-> {}]
    /\ alone = [t \in Threads |-> FALSE]
    /\ overlapped = FALSE
    /\ last = [k \in Keys |-> NeverWritten]
    /\ prev = [k \in Keys |-> [w |-> "never", v |-> NoVal]]
    /\ nops = 0

----------------------------------------------------------------------------
(* NewCSMap *)

(* A loop that starts at index 1 and leaves shards[0] without a Shard. *)
NewCSMapSkipFirst(n, kt) ==
    /\ status = "none"
    /\ n >= 0
    /\ status' = "active"
    /\ ktype' = kt
    /\ length' = n
    /\ m' = [i \in 1..(n - 1) |-> EmptyMap]
    /\ mu' = [i \in 1..(n - 1) |-> FreeLock]
    /\ UNCHANGED <<pc, op, sh, ret, held, alone, overlapped, last, prev, nops>>

(* make([]*Shard, length) with length >= 0, then one fresh Shard per index. *)
NewCSMap(n, kt) ==
    /\ status = "none"
    /\ n >= 0
    /\ status' = "active"
    /\ ktype' = kt
    /\ length' = n
    /\ m' = [i \in 0..(n - 1) |-> EmptyMap]
    /\ mu' = [i \in 0..(n - 1) |-> FreeLock]
    /\ UNCHANGED <<pc, op, sh, ret, held, alone, overlapped, last, prev, nops>>

(* make with a negative length panics (makeslice: len out of range). *)
NewCSMapPanic(n) ==
    /\ status = "none"
    /\ n < 0
    /\ status' = "panic"
    /\ UNCHANGED <<ktype, length, m, mu, pc, op, sh, ret, held, alone, overlapped, last, prev, nops>>

----------------------------------------------------------------------------
(* The calls.  An int key has no backing bytes: its address is 0. *)

KeyAddrs == IF ktype = "int" THEN {0} ELSE Addrs

CanCall(t) ==
    /\ status = "active"
    /\ pc[t] = "idle"
    /\ nops < MaxOps

(* hash with c.length = 0: integer divide by zero, a runtime panic.  The  *)
(* call has started and never returns.                                     *)
CallPanic(t) ==
    /\ CanCall(t)
    /\ length = 0
    /\ status' = "panic"
    /\ pc' = [pc EXCEPT ![t] = "panic"]
    /\ UNCHANGED <<ktype, length, m, mu, op, sh, ret, held, alone, overlapped, last, prev, nops>>

(* A Set or Delete is called: s := c.getShard(key). *)
CallWrite(t, kind, k, a, v) ==
    /\ CanCall(t)
    /\ length > 0
    /\ op' = [op EXCEPT ![t] = [kind |-> kind, k |-> k, a |-> a, v |-> v]]
    /\ sh' = [sh EXCEPT ![t] = getShard(ktype, k, a, length)]
    /\ pc' = [pc EXCEPT ![t] = "Lock"]
    /\ alone' = [u \in Threads |-> FALSE]
    /\ overlapped' = (overlapped \/ \E u \in Threads : pc[u] # "idle")
    /\ nops' = nops + 1
    /\ UNCHANGED <<status, ktype, length, m, mu, ret, held, last, prev>>

CallSet(t, k, a, v) == CallWrite(t, "Set", k, a, v)

CallDelete(t, k, a) == CallWrite(t, "Delete", k, a, NoVal)

(* Get is called: s := c.getShard(key). *)
CallGet(t, k, a) ==
    /\ CanCall(t)
    /\ length > 0
    /\ op' = [op EXCEPT ![t] = [kind |-> "Get", k |-> k, a |-> a, v |-> NoVal]]
    /\ sh' = [sh EXCEPT ![t] = getShard(ktype, k, a, length)]
    /\ pc' = [pc EXCEPT ![t] = "RLock"]
    /\ alone' = [u \in Threads |-> u = t /\ \A w \in Threads : pc[w] = "idle"]
    /\ overlapped' = (overlapped \/ \E u \in Threads : pc[u] # "idle")
    /\ nops' = nops + 1
    /\ UNCHANGED <<status, ktype, length, m, mu, ret, held, last, prev>>

(* s.mu.Lock() of Set and Delete: blocks until the lock is free. *)
AcquireLock(t) ==
    /\ status = "active"
    /\ pc[t] = "Lock"
    /\ CanLock(mu[ShardLock(sh[t])])
    /\ mu' = [mu EXCEPT ![ShardLock(sh[t])] = Lock(@)]
    /\ held' = [held EXCEPT ![t] = @ \cup {sh[t]}]
    /\ pc' = [pc EXCEPT ![t] = op[t].kind]
    /\ UNCHANGED <<status, ktype, length, m, op, sh, ret, alone, overlapped, last, prev, nops>>

Commit(k, w, v, s) ==
    /\ prev' = [prev EXCEPT ![k] = [w |-> last[k].w, v |-> last[k].v]]
    /\ last' = [last EXCEPT ![k] = [w |-> w, v |-> v, s |-> s,
                                    e |-> last[k].e \/ w = "set"]]

(* s.m[key] = value *)
SetStore(t) ==
    /\ status = "active"
    /\ pc[t] = "Set"
    /\ m' = [m EXCEPT ![sh[t]] = MapAssign(@, op[t].k, op[t].v)]
    /\ Commit(op[t].k, "set", op[t].v, sh[t])
    /\ pc' = [pc EXCEPT ![t] = "Unlock"]
    /\ UNCHANGED <<status, ktype, length, mu, op, sh, ret, held, alone, overlapped, nops>>

(* delete(s.m, key) *)
DeleteRemove(t) ==
    /\ status = "active"
    /\ pc[t] = "Delete"
    /\ m' = [m EXCEPT ![sh[t]] = MapDelete(@, op[t].k)]
    /\ Commit(op[t].k, "del", NoVal, sh[t])
    /\ pc' = [pc EXCEPT ![t] = "Unlock"]
    /\ UNCHANGED <<status, ktype, length, mu, op, sh, ret, held, alone, overlapped, nops>>

(* The deferred s.mu.Unlock() of Set and Delete, and the return. *)
ReleaseLock(t) ==
    /\ status = "active"
    /\ pc[t] = "Unlock"
    /\ mu' = [mu EXCEPT ![ShardLock(sh[t])] = Unlock(@)]
    /\ held' = [held EXCEPT ![t] = @ \ {sh[t]}]
    /\ pc' = [pc EXCEPT ![t] = "idle"]
    /\ op' = [op EXCEPT ![t] = NoOp]
    /\ sh' = [sh EXCEPT ![t] = 0]
    /\ UNCHANGED <<status, ktype, length, m, ret, alone, overlapped, last, prev, nops>>

(* s.mu.RLock() of Get: blocks while a writer holds the lock. *)
AcquireRLock(t) ==
    /\ status = "active"
    /\ pc[t] = "RLock"
    /\ CanRLock(mu[ShardLock(sh[t])])
    /\ mu' = [mu EXCEPT ![ShardLock(sh[t])] = RLock(@)]
    /\ held' = [held EXCEPT ![t] = @ \cup {sh[t]}]
    /\ pc' = [pc EXCEPT ![t] = "Get"]
    /\ UNCHANGED <<status, ktype, length, m, op, sh, ret, alone, overlapped, last, prev, nops>>

(* v, ok := s.m[key]; return v, ok (the results are set before the        *)
(* deferred RUnlock runs).                                                 *)
GetLookup(t) ==
    /\ status = "active"
    /\ pc[t] = "Get"
    /\ ret' = [ret EXCEPT ![t] = MapLookup(m[sh[t]], op[t].k)]
    /\ pc' = [pc EXCEPT ![t] = "RUnlock"]
    /\ UNCHANGED <<status, ktype, length, m, mu, op, sh, held, alone, overlapped, last, prev, nops>>

(* The deferred s.mu.RUnlock() of Get, and the return. *)
ReleaseRLock(t) ==
    /\ status = "active"
    /\ pc[t] = "RUnlock"
    /\ mu' = [mu EXCEPT ![ShardLock(sh[t])] = RUnlock(@)]
    /\ held' = [held EXCEPT ![t] = @ \ {sh[t]}]
    /\ pc' = [pc EXCEPT ![t] = "idle"]
    /\ op' = [op EXCEPT ![t] = NoOp]
    /\ sh' = [sh EXCEPT ![t] = 0]
    /\ ret' = [ret EXCEPT ![t] = NoRet]
    /\ alone' = [alone EXCEPT ![t] = FALSE]
    /\ UNCHANGED <<status, ktype, length, m, overlapped, last, prev, nops>>

Next ==
    \/ \E n \in Lengths, kt \in KeyTypes : NewCSMap(n, kt)
    \/ \E n \in Lengths : NewCSMapPanic(n)
    \/ \E t \in Threads : CallPanic(t)
    \/ \E t \in Threads, k \in Keys, a \in KeyAddrs, v \in Vals : CallSet(t, k, a, v)
    \/ \E t \in Threads, k \in Keys, a \in KeyAddrs : CallDelete(t, k, a)
    \/ \E t \in Threads, k \in Keys, a \in KeyAddrs : CallGet(t, k, a)
    \/ \E t \in Threads : AcquireLock(t)
    \/ \E t \in Threads : SetStore(t)
    \/ \E t \in Threads : DeleteRemove(t)
    \/ \E t \in Threads : ReleaseLock(t)
    \/ \E t \in Threads : AcquireRLock(t)
    \/ \E t \in Threads : GetLookup(t)
    \/ \E t \in Threads : ReleaseRLock(t)

Spec == Init /\ [][Next]_vars

----------------------------------------------------------------------------
(* Properties *)

KeyOf(t) == op[t].k

(* The goroutine has evaluated "return v, ok" of Get. *)
GetReturns(t) == status = "active" /\ pc[t] = "RUnlock"

(* The goroutine holds lock i exclusively / in shared mode. *)
HoldsExclusive(t, i) == i \in held[t] /\ op[t].kind \in {"Set", "Delete"}

(* The goroutine is about to read or write the map of shard i. *)
Accesses(t, i) == pc[t] \in {"Set", "Delete", "Get"} /\ sh[t] = i

(* The goroutine waits for a lock that cannot be acquired now. *)
Blocked(t) ==
    \/ pc[t] = "Lock" /\ ~CanLock(mu[ShardLock(sh[t])])
    \/ pc[t] = "RLock" /\ ~CanRLock(mu[ShardLock(sh[t])])

(* C1: in a run of calls that do not overlap, a Get(k) whose latest        *)
(* preceding Set(k, _) or Delete(k) is Set(k, v) returns (v, true).        *)
C1_GetAfterSet ==
    \A t \in Threads :
        (GetReturns(t) /\ ~overlapped /\ last[KeyOf(t)].w = "set")
            => ret[t] = <<last[KeyOf(t)].v, TRUE>>

(* C2: in a run of calls that do not overlap, a Get(k) whose latest        *)
(* preceding Set(k, _) or Delete(k) is Delete(k) returns found = false.    *)
C2_GetAfterDelete ==
    \A t \in Threads :
        (GetReturns(t) /\ ~overlapped /\ last[KeyOf(t)].w = "del")
            => ret[t][2] = FALSE

(* C3: last write wins: in a run of calls that do not overlap, after       *)
(* Set(k, v1) and then Set(k, v2), Get(k) returns (v2, true).              *)
C3_LastWriteWins ==
    \A t \in Threads :
        (/\ GetReturns(t) /\ ~overlapped
         /\ prev[KeyOf(t)].w = "set" /\ last[KeyOf(t)].w = "set")
            => ret[t] = <<last[KeyOf(t)].v, TRUE>>

(* C4: NewCSMap produces no instance with a shard count <= 0, so no call   *)
(* ever runs on a map without shards.                                      *)
C4_NoInstanceWithoutShards == status = "active" => length > 0

(* C5: the shard index is a function of the key's value: two calls in      *)
(* progress with equal keys have the same index, and a call has the index  *)
(* of the latest write of an equal key.                                    *)
C5_ShardOfKeyValue ==
    \A t \in Threads :
        pc[t] # "idle" =>
            /\ \A u \in Threads :
                   (pc[u] # "idle" /\ KeyOf(u) = KeyOf(t)) => sh[u] = sh[t]
            /\ last[KeyOf(t)].w # "never" => sh[t] = last[KeyOf(t)].s

(* C6: on a map with int keys, whatever calls overlapped before, a Get(i)  *)
(* that runs alone after them returns the value of the latest Set(i, _),   *)
(* and no two goroutines are at an access to the same shard's map unless   *)
(* both read it.                                                           *)
C6_ConcurrentSetsKept ==
    ktype = "int" =>
        /\ \A t \in Threads :
               (GetReturns(t) /\ alone[t] /\ last[KeyOf(t)].w = "set")
                   => ret[t] = <<last[KeyOf(t)].v, TRUE>>
        /\ \A t, u \in Threads, i \in Shards :
               (t # u /\ Accesses(t, i) /\ Accesses(u, i))
                   => (op[t].kind = "Get" /\ op[u].kind = "Get")

(* Two Sets of distinct int keys overlapped, both returned, and a Get that *)
(* ran alone after them returns the value set.                             *)
C6_Witness ==
    \E t \in Threads :
        /\ ktype = "int" /\ GetReturns(t) /\ alone[t] /\ overlapped
        /\ \A k \in Keys : last[k].w = "set" /\ prev[k].w = "never"
        /\ ret[t] = <<last[KeyOf(t)].v, TRUE>>

(* C7: two distinct keys stored through the same shard do not merge: when  *)
(* the latest writes of k1 and of k2 are Sets routed to the shard a        *)
(* Get(k1) is routed to, the Get returns (v1, true).                       *)
C7_CollisionKeepsBoth ==
    \A t \in Threads, k2 \in Keys :
        (/\ GetReturns(t) /\ k2 # KeyOf(t)
         /\ last[KeyOf(t)].w = "set" /\ last[KeyOf(t)].s = sh[t]
         /\ last[k2].w = "set" /\ last[k2].s = sh[t])
            => ret[t] = <<last[KeyOf(t)].v, TRUE>>

(* Two string keys share a shard of a map with two shards; Get of one of   *)
(* them returns its value.                                                 *)
C7_Witness ==
    \E t \in Threads, k2 \in Keys :
        /\ ktype = "string" /\ length = 2
        /\ GetReturns(t) /\ ~overlapped /\ k2 # KeyOf(t)
        /\ last[KeyOf(t)].w = "set" /\ last[KeyOf(t)].s = sh[t]
        /\ last[k2].w = "set" /\ last[k2].s = sh[t]
        /\ ret[t] = <<last[KeyOf(t)].v, TRUE>>

(* C8: delete(s.m, key) of a key that no shard holds does not panic and    *)
(* leaves the map of every shard as it was.                                *)
C8_DeleteAbsentNoOp ==
    [][\A t \in Threads :
          (/\ pc[t] = "Delete" /\ pc'[t] # "Delete"
           /\ \A i \in Shards : m[i][KeyOf(t)] = NoVal)
              => (m' = m /\ status' = "active" /\ pc'[t] = "Unlock")]_vars

(* A Delete of a key that was never set has run on a map that holds        *)
(* another key.                                                            *)
C8_Witness ==
    \E t \in Threads, k2 \in Keys :
        /\ pc[t] = "Unlock" /\ op[t].kind = "Delete"
        /\ last[KeyOf(t)].w = "del" /\ prev[KeyOf(t)].w = "never"
        /\ last[k2].w = "set" /\ m[last[k2].s][k2] = last[k2].v

(* C9: while a goroutine holds a shard's lock exclusively, no other        *)
(* goroutine holds that lock in any mode, and no lock has a writer and     *)
(* readers at once.                                                        *)
C9_ReaderWriterExclusion ==
    /\ \A t, u \in Threads, i \in Shards :
           (t # u /\ HoldsExclusive(t, i)) => i \notin held[u]
    /\ \A i \in Shards : ~(mu[i].w /\ mu[i].r > 0)

(* A Set or Delete holds a shard's lock while a Get waits for it.          *)
C9_Witness ==
    \E t, u \in Threads, i \in Shards :
        /\ t # u /\ HoldsExclusive(t, i)
        /\ pc[u] = "RLock" /\ sh[u] = i /\ Blocked(u)

(* C10: a call holds at most one shard lock, and whenever calls are in     *)
(* progress one of them is not blocked.                                    *)
C10_OneLockNoDeadlock ==
    /\ \A t \in Threads : Cardinality(held[t]) <= 1
    /\ (status = "active" /\ \E t \in Threads : pc[t] # "idle")
           => \E t \in Threads : pc[t] # "idle" /\ ~Blocked(t)

(* A call waits for a lock that the other call holds.                      *)
C10_Witness ==
    \E t, u \in Threads :
        /\ t # u /\ Blocked(t) /\ held[u] = {sh[t]} /\ held[t] = {}

(* The effect on key k of the latest committed Set(k, _) or Delete(k), as  *)
(* a Get result.                                                           *)
Effect(k) == <<last[k].v, last[k].w = "set">>

AllIdle == \A t \in Threads : pc[t] = "idle"

(* What Get(k) called with the key stored at address a would return now. *)
GetResult(k, a) == MapLookup(m[getShard(ktype, k, a, length)], k)

(* C11: in a run with overlapping calls, the calls on a key are ordered by *)
(* their lock acquisitions: a Get(k) that runs after them returns the      *)
(* effect of the Set(k, _) or Delete(k) that took the lock last, and once  *)
(* all calls have returned the state of k is that effect.                  *)
C11_LockOrderPerKey ==
    (status = "active" /\ overlapped) =>
        /\ \A t \in Threads :
               (GetReturns(t) /\ alone[t]) => ret[t] = Effect(KeyOf(t))
        /\ AllIdle => \A k \in Keys, a \in KeyAddrs : GetResult(k, a) = Effect(k)

(* C12: every key is present in the map of at most one shard.              *)
C12_KeyInOneShard ==
    status = "active" =>
        \A k \in Keys : Cardinality({i \in Shards : m[i][k] # NoVal}) <= 1

(* A step of goroutine t inside a call of Get (the call itself included). *)
GetStep(t) == pc'[t] # pc[t] /\ (op[t].kind = "Get" \/ op'[t].kind = "Get")

(* A step of goroutine t inside a call of Set or Delete. *)
WriteStep(t) ==
    /\ pc'[t] # pc[t]
    /\ (op[t].kind \in {"Set", "Delete"} \/ op'[t].kind \in {"Set", "Delete"})

(* C13: no step of Get changes the map of any shard, and the result of Get *)
(* is the entry of the key in its shard's map while the read lock is held: *)
(* found = true exactly when the key is present.                           *)
C13_GetReadsOnly ==
    [][/\ \A t \in Threads : GetStep(t) => m' = m
       /\ \A t \in Threads :
              pc'[t] = "RUnlock" =>
                  /\ ret'[t][1] = m'[sh'[t]][op'[t].k]
                  /\ ret'[t][2] = (m'[sh'[t]][op'[t].k] # NoVal)]_vars

(* A Get of an absent key has returned found = false from a shard that     *)
(* holds another key.                                                      *)
C13_Witness ==
    \E t \in Threads, k2 \in Keys :
        /\ GetReturns(t) /\ ret[t] = <<NoVal, FALSE>>
        /\ m[sh[t]][k2] # NoVal

(* C14: a call waits only for the lock of the shard it is routed to: a     *)
(* blocked call finds that lock held by another call on the same shard.    *)
C14_BlocksOnlyOnOwnShard ==
    \A t \in Threads :
        Blocked(t) => \E u \in Threads \ {t} : sh[t] \in held[u]

(* Two calls hold the locks of two different shards at once, one of them   *)
(* exclusively.                                                            *)
C14_Witness ==
    \E t, u \in Threads :
        /\ t # u /\ held[t] # {} /\ held[u] # {} /\ held[t] # held[u]
        /\ HoldsExclusive(t, sh[t])

(* C16: a goroutine that is in no call holds no lock, and when no call is  *)
(* in progress every shard's lock is free.                                 *)
C16_LocksReleased ==
    /\ \A t \in Threads : pc[t] = "idle" => held[t] = {}
    /\ (status = "active" /\ AllIdle) => \A i \in Shards : mu[i] = [w |-> FALSE, r |-> 0]

(* Overlapping calls, a Set among them, have all returned.                 *)
C16_Witness ==
    /\ status = "active" /\ AllIdle /\ overlapped
    /\ \E k \in Keys : last[k].w = "set"
    /\ \E k \in Keys : last[k].w = "del"

(* C19: Set(k, v) and Delete(k) change at most the entry of k in the shard *)
(* k is routed to: every other entry of that shard and the maps of all     *)
(* other shards stay as they were.                                         *)
C19_WriteChangesOnlyItsKey ==
    [][\A t \in Threads :
          WriteStep(t) =>
              \A i \in Shards, k2 \in Keys :
                  (i # sh'[t] \/ k2 # op'[t].k \/ pc[t] \notin {"Set", "Delete"})
                      => m'[i][k2] = m[i][k2]]_vars

(* A Set has stored its entry in a shard that holds another key.           *)
C19_Witness ==
    \E t \in Threads, k2 \in Keys :
        /\ pc[t] = "Unlock" /\ op[t].kind = "Set" /\ k2 # KeyOf(t)
        /\ m[sh[t]][k2] # NoVal /\ m[sh[t]][KeyOf(t)] = op[t].v

(* C17: on every instance NewCSMap returns, every call computes a shard    *)
(* index inside the shard array and none panics with a division by zero.   *)
C17_IndexInRange ==
    [][status = "active" =>
          /\ status' = "active"
          /\ \A t \in Threads : pc'[t] # "idle" => sh'[t] \in 0..(length' - 1)]_vars

(* C18: an instance made with n > 0 has n shards, each with an empty map   *)
(* and a free lock when NewCSMap returns; the number of shards never       *)
(* changes; and Get of a key that was never Set returns found = false.     *)
C18_ShardsOfNewMap ==
    [][(status' = "active" /\ length' > 0) =>
          /\ DOMAIN m' = 0..(length' - 1)
          /\ DOMAIN mu' = 0..(length' - 1)
          /\ status = "none" =>
                 \A i \in 0..(length' - 1) :
                     /\ \A k \in Keys : m'[i][k] = NoVal
                     /\ mu'[i] = [w |-> FALSE, r |-> 0]
          /\ status = "active" => length' = length
          /\ \A t \in Threads :
                 (pc'[t] = "RUnlock" /\ ~last'[op'[t].k].e) => ~ret'[t][2]]_vars

(* A Get of a key that was never Set has returned found = false on a map   *)
(* with two shards that holds another key.                                 *)
C18_Witness ==
    \E t \in Threads, k2 \in Keys :
        /\ GetReturns(t) /\ length = 2 /\ DOMAIN m = {0, 1}
        /\ ~last[KeyOf(t)].e /\ ~ret[t][2]
        /\ last[k2].w = "set"

(* The single plain map that the calls build when each is applied at the   *)
(* moment it holds its shard's lock.                                       *)
PlainMap == [k \in Keys |-> IF last[k].w = "set" THEN last[k].v ELSE NoVal]

(* The values the shards hold for key k. *)
ShardUnion(k) == {m[i][k] : i \in Shards} \ {NoVal}

(* C20: the shards refine one plain map: a Get that runs alone returns     *)
(* what the plain map holds for its key, and when no call is in progress   *)
(* the union of the shards' maps is the plain map.                         *)
C20_RefinesPlainMap ==
    status = "active" =>
        /\ \A t \in Threads :
               (GetReturns(t) /\ alone[t])
                   => ret[t] = MapLookup(PlainMap, KeyOf(t))
        /\ AllIdle => \A k \in Keys : ShardUnion(k) = {PlainMap[k]} \ {NoVal}

----------------------------------------------------------------------------
(* Fair scheduling: a goroutine inside a call that can take its next step *)
(* eventually takes it.  Starting a call is left to the caller.            *)

Step(t) ==
    \/ AcquireLock(t)
    \/ SetStore(t)
    \/ DeleteRemove(t)
    \/ ReleaseLock(t)
    \/ AcquireRLock(t)
    \/ GetLookup(t)
    \/ ReleaseRLock(t)

FairSpec == Spec /\ \A t \in Threads : WF_vars(Step(t))

InCall(t) == pc[t] # "idle"

(* C15: under fair scheduling every started Set, Get or Delete eventually *)
(* returns: it acquires its shard's lock and runs to completion.           *)
C15_EveryCallReturns == \A t \in Threads : InCall(t) ~> ~InCall(t)

(* The same property on the instances that have at least one shard.       *)
C15_ReturnsOnShards ==
    \A t \in Threads : (InCall(t) /\ length > 0) ~> ~InCall(t)

=============================================================================
